---- MODULE Spec2Model ----
(***************************************************************************)
(* Model of dataset_generation.py: the synthetic support-ticket generator  *)
(* (generate_support_tickets, get_resolution) and its caller.              *)
(*                                                                         *)
(* Time is held in whole seconds since start_date = 2024-01-01 00:00;      *)
(* Python's datetime/timedelta hold microseconds, the output format holds  *)
(* minutes.  A float number of hours is held as its number of seconds.     *)
(* Probabilities and the draws of random.random() are held in thousandths. *)
(* A Python string that is built by formatting or concatenation is held as *)
(* the sequence of its parts; the empty string '' is the empty sequence.   *)
(***************************************************************************)
EXTENDS Integers, Sequences, FiniteSets, TLC

VARIABLES
    pc,                       \* position in the program
    num_tickets,              \* argument of generate_support_tickets
    target_reopen_rate,       \* configuration local, thousandths
    ticket_id,                \* loop variable of the for loop
    tickets,                  \* the list being built / returned
    first_run,                \* the list an earlier run of the same call returned, if any
    date_opened,              \* locals of the loop body
    product,
    issue,
    priority,
    assigned_to,
    will_reopen,
    resolution_hours,
    date_closed,
    reopen_date,
    second_resolution_hours,
    final_close_date,
    status,
    date_closed_formatted,
    resolution,
    file_exists,              \* the output file: whether it exists, and its rows
    csvfile,
    handle,                   \* the file object of save_to_csv: "none", "open", "closed"
    stdout,                   \* the lines printed so far
    error,                    \* the exception that is propagating, "" for none
    exit_code,                \* exit status of the process, None while it runs
    df,                       \* the data frame a dashboard loaded, <<>> before it starts
    filtered_df,              \* the frame the last filter callback built
    selected                  \* the filter values of the last callback

locals == <<date_opened, product, issue, priority, assigned_to, will_reopen,
            resolution_hours, date_closed, reopen_date, second_resolution_hours,
            final_close_date, status, date_closed_formatted, resolution>>

io == <<file_exists, csvfile, handle, stdout, error, exit_code>>

dash == <<df, filtered_df, selected>>

vars == <<pc, num_tickets, target_reopen_rate, ticket_id, tickets, first_run, locals, io, dash>>

----------------------------------------------------------------------------
(* Bounds of the model *)

\* largest count the multi-ticket specification passes to the generator
MaxTickets == 2

----------------------------------------------------------------------------
(* Units *)

Minute == 60
Hour == 60 * Minute
Day == 24 * Hour

\* value of a local that has not been assigned in this iteration
None == 0 - 1

EmptyStr == <<>>

Max(a, b) == IF a >= b THEN a ELSE b

----------------------------------------------------------------------------
(* Configuration of generate_support_tickets *)

\* target_full_resolution_hours = 4.2, in tenths of an hour
target_full_resolution_hours == 42

\* the divisor 4.0 of the rescaling, in tenths of an hour
base_mean_hours == 40

\* target_reopen_rate = 0.132, in thousandths
default_reopen_rate == 132

\* the floor 0.1 hour of max(0.1, ...), in seconds
min_resolution_hours == 360

\* random.random() < 0.1: a ticket is an outlier, in thousandths
outlier_rate == 100

\* random.random() < 0.7: a weekend close is moved, in thousandths
weekend_skip_rate == 700

\* random.random() < 0.7: a reopened ticket is resolved again, in thousandths
resolved_again_rate == 700

\* range(1001, 1001 + num_tickets)
first_ticket_id == 1001

\* current_time = datetime(2024, 12, 31), in seconds after start_date
current_time == 365 * Day

products == <<"Aether", "Dynamo", "Pulse">>

\* an issue of Pulse spelled as no entry of get_resolution's table is
issue_types_unregistered ==
    [Aether |-> <<"Login Issue", "Payment Failure", "Performance Issue",
                  "Data Sync Error", "UI Bug">>,
     Dynamo |-> <<"Software Crash", "Integration Error", "Performance Issue",
                  "Configuration Problem", "Data Loss">>,
     Pulse  |-> <<"Network Failure", "Connection Timeout", "Service Unavailable",
                  "Authentication Error", "Sync Problem">>]

issue_types ==
    [Aether |-> <<"Login Issue", "Payment Failure", "Performance Issue",
                  "Data Sync Error", "UI Bug">>,
     Dynamo |-> <<"Software Crash", "Integration Error", "Performance Issue",
                  "Configuration Problem", "Data Loss">>,
     Pulse  |-> <<"Network Failure", "Connection Timeout", "Service Unavailable",
                  "Authentication Error", "Sync Issue">>]

priorities == <<"Low", "Medium", "High", "Critical">>

support_agents == <<"Alice", "Bob", "Charlie", "Diana", "Eve", "Frank">>

statuses == <<"Open", "Closed", "Reopened Open", "Reopened Closed">>

----------------------------------------------------------------------------
(* datetime: the calendar, weekday() and strftime('%m/%d/%Y %H:%M') *)

start_year == 2024

IsLeap(y) == (y % 4 = 0 /\ y % 100 # 0) \/ y % 400 = 0

DaysInYear(y) == IF IsLeap(y) THEN 366 ELSE 365

DaysInMonth(y, m) ==
    IF m = 2 THEN (IF IsLeap(y) THEN 29 ELSE 28)
    ELSE IF m \in {4, 6, 9, 11} THEN 30 ELSE 31

\* <<year, day of the year (from 0)>> of day number d counted from 1 January of y
RECURSIVE YearOf(_, _)
YearOf(d, y) == IF d < DaysInYear(y) THEN <<y, d>> ELSE YearOf(d - DaysInYear(y), y + 1)

\* <<month, day of the month>> of day d (from 0) counted from the first of month m
RECURSIVE MonthOf(_, _, _)
MonthOf(y, d, m) ==
    IF d < DaysInMonth(y, m) THEN <<m, d + 1>> ELSE MonthOf(y, d - DaysInMonth(y, m), m + 1)

\* datetime.weekday(): Monday is 0; 2024-01-01 is a Monday
weekday(t) == (t \div Day) % 7

\* strftime('%m/%d/%Y %H:%M'): month, day, year, hour, minute; seconds are dropped
strftime(t) ==
    LET yd == YearOf(t \div Day, start_year)
        md == MonthOf(yd[1], yd[2], 1)
        sec == t % Day
    IN  <<md[1], md[2], yd[1], sec \div Hour, (sec % Hour) \div Minute>>

\* days from 1 January of start_year to 1 January of y
RECURSIVE DaysBeforeYear(_)
DaysBeforeYear(y) == IF y <= start_year THEN 0 ELSE DaysBeforeYear(y - 1) + DaysInYear(y - 1)

\* days from 1 January of y to the first of month m
RECURSIVE DaysBeforeMonth(_, _)
DaysBeforeMonth(y, m) == IF m <= 1 THEN 0 ELSE DaysBeforeMonth(y, m - 1) + DaysInMonth(y, m - 1)

\* pd.to_datetime(..., format='%m/%d/%Y %H:%M'): the instant a formatted date names
to_datetime(f) ==
    (DaysBeforeYear(f[3]) + DaysBeforeMonth(f[3], f[1]) + f[2] - 1) * Day
        + f[4] * Hour + f[5] * Minute

\* timedelta(days, hours, minutes) and timedelta(hours = a float), in seconds
timedelta(days, hours, minutes) == days * Day + hours * Hour + minutes * Minute

----------------------------------------------------------------------------
(* get_resolution *)

reopened_suffix == <<" - Reopened Issue Addressed">>

resolutions ==
    ("Login Issue" :> <<"Reset User Password", "Fixed Authentication Service", "Updated User Credentials">>)
 @@ ("Payment Failure" :> <<"Informed Billing Team", "Updated Payment Method", "Resolved Gateway Issue">>)
 @@ ("Performance Issue" :> <<"Optimized Database Query", "Increased Server Resources", "Fixed Memory Leak">>)
 @@ ("Software Crash" :> <<"Applied Software Patch", "Fixed Memory Exception", "Updated Dependencies">>)
 @@ ("Network Failure" :> <<"Restored Network Connection", "Fixed DNS Configuration", "Replaced Network Hardware">>)
 @@ ("Data Sync Error" :> <<"Resynced Data", "Fixed Sync Configuration", "Resolved Data Conflict">>)
 @@ ("UI Bug" :> <<"Fixed UI Component", "Updated User Interface", "Resolved Display Issue">>)
 @@ ("Integration Error" :> <<"Fixed API Connection", "Updated Integration Settings", "Resolved Authentication">>)
 @@ ("Configuration Problem" :> <<"Updated Configuration", "Fixed Settings", "Restored Default Config">>)
 @@ ("Data Loss" :> <<"Restored from Backup", "Recovered Data", "Implemented Data Recovery">>)
 @@ ("Connection Timeout" :> <<"Increased Timeout Settings", "Fixed Network Configuration", "Optimized Connection">>)
 @@ ("Service Unavailable" :> <<"Restarted Service", "Fixed Service Configuration", "Resolved Server Issue">>)
 @@ ("Authentication Error" :> <<"Reset Authentication", "Updated Credentials", "Fixed Auth Service">>)
 @@ ("Sync Issue" :> <<"Fixed Synchronization", "Updated Sync Settings", "Resolved Sync Conflict">>)

\* the phrasing taken from the entry of 'Login Issue' whatever the issue
get_resolution_one_entry(iss, is_reopened, k) ==
    <<resolutions["Login Issue"][k]>> \o (IF is_reopened THEN reopened_suffix ELSE EmptyStr)

\* get_resolution(issue, is_reopened); k is the index random.choice draws
get_resolution(iss, is_reopened, k) ==
    IF iss \in DOMAIN resolutions
    THEN <<resolutions[iss][k]>> \o (IF is_reopened THEN reopened_suffix ELSE EmptyStr)
    ELSE <<"Issue Resolved">> \o (IF is_reopened THEN reopened_suffix ELSE EmptyStr)

----------------------------------------------------------------------------
(* The random draws.  Each draw ranges over a finite sample of the values  *)
(* the library call can return; a sample record s names one sample per     *)
(* call.  random.choice(seq) is held as the index it draws.                *)

\* draws of random.random(), thousandths of [0, 1): both sides of 0.1, 0.132, 0.7
UnitDraws == {0, 99, 100, 131, 132, 699, 700, 999}

\* draws of np.random.gamma, seconds: half a minute (below the 0.1 hour floor),
\* 6 minutes 20 seconds, 2 hours
GammaDraws == {30, 380, 2 * Hour}

\* one ticket at a time, the vocabularies in full
Wide ==
    [days       |-> {0, 4, 364, 365},
     hours      |-> {0, 23},
     minutes    |-> {0, 59},
     products   |-> 1..3,
     issues     |-> 1..5,
     priorities |-> 1..4,
     agents     |-> {1, 6},
     reopen_u   |-> UnitDraws,
     gamma      |-> GammaDraws,
     outlier_u  |-> UnitDraws,
     outlier    |-> {80},
     weekend_u  |-> UnitDraws,
     delay      |-> {1, 23, 168},
     again_u    |-> UnitDraws,
     phrasing   |-> 1..3]

\* several tickets, few values per draw
Narrow ==
    [days       |-> {4, 364},
     hours      |-> {21},
     minutes    |-> {59},
     products   |-> {1, 3},
     issues     |-> {5},
     priorities |-> {4},
     agents     |-> {6},
     reopen_u   |-> UnitDraws,
     gamma      |-> {30, 2 * Hour},
     outlier_u  |-> {999},
     outlier    |-> {80},
     weekend_u  |-> UnitDraws,
     delay      |-> {1, 23},
     again_u    |-> UnitDraws,
     phrasing   |-> {3}]

----------------------------------------------------------------------------
(* generate_support_tickets *)

\* the range runs one value too far
InRange_inclusive(id) == id <= first_ticket_id + num_tickets

\* for ticket_id in range(1001, 1001 + num_tickets)
InRange(id) == id < first_ticket_id + num_tickets

\* the issue is drawn from the first product's list, whatever the product
IssueChoices_first_product(p, s) == {issue_types[products[1]][i] : i \in s.issues}

\* random.choice(issue_types[product])
IssueChoices(p, s) == {issue_types[p][i] : i \in s.issues}

\* the comparison lets the draw 0.0 through
WillReopen_inclusive(u) == u <= target_reopen_rate

\* random.random() < target_reopen_rate
WillReopen(u) == u < target_reopen_rate

\* np.random.gamma(shape, scale) of the priority's branch: every branch can
\* return any positive float, whatever its shape and scale
GammaOf(prio, s) ==
    CASE prio = "Critical" -> s.gamma
      [] prio = "High"     -> s.gamma
      [] prio = "Medium"   -> s.gamma
      [] OTHER             -> s.gamma

\* the rescaling without its floor of 0.1 hour
Rescale_no_floor(base_hours) ==
    (base_hours * target_full_resolution_hours) \div base_mean_hours

\* max(0.1, base_hours * (target_full_resolution_hours / 4.0))
Rescale(base_hours) ==
    Max(min_resolution_hours, (base_hours * target_full_resolution_hours) \div base_mean_hours)

\* resolution_hours *= random.uniform(3, 8); the factor f is in tenths
Outlier(hours, f) == (hours * f) \div 10

\* a printed line: its text, and the number formatted into it (None for no number)
Line(text, value) == [text |-> text, value |-> value]

ResetLocals ==
    /\ date_opened' = None
    /\ product' = ""
    /\ issue' = ""
    /\ priority' = ""
    /\ assigned_to' = ""
    /\ will_reopen' = FALSE
    /\ resolution_hours' = None
    /\ date_closed' = None
    /\ reopen_date' = None
    /\ second_resolution_hours' = None
    /\ final_close_date' = None
    /\ status' = ""
    /\ date_closed_formatted' = EmptyStr
    /\ resolution' = EmptyStr

\* the script at the call of generate_support_tickets(count), the count among
\* counts and the configured reopen rate among rates
InitWith(counts, rates) ==
    /\ pc = "for"
    /\ num_tickets \in counts
    /\ target_reopen_rate \in rates
    /\ ticket_id = first_ticket_id
    /\ tickets = <<>>
    /\ first_run = <<>>
    /\ date_opened = None
    /\ product = ""
    /\ issue = ""
    /\ priority = ""
    /\ assigned_to = ""
    /\ will_reopen = FALSE
    /\ resolution_hours = None
    /\ date_closed = None
    /\ reopen_date = None
    /\ second_resolution_hours = None
    /\ final_close_date = None
    /\ status = ""
    /\ date_closed_formatted = EmptyStr
    /\ resolution = EmptyStr
    /\ file_exists = FALSE
    /\ csvfile = <<>>
    /\ handle = "none"
    /\ stdout = <<Line("Generating 2500 support tickets...", None)>>
    /\ error = ""
    /\ exit_code = None
    /\ df = <<>>
    /\ filtered_df = <<>>
    /\ selected = <<>>

\* the for statement: the next value of the range, or the loop's end and return
ForLoop ==
    /\ pc = "for"
    /\ pc' = IF InRange(ticket_id) THEN "body" ELSE "returned"
    /\ UNCHANGED <<num_tickets, target_reopen_rate, ticket_id, tickets, first_run,
                   locals, io, dash>>

\* lines 39-59: date_opened, product, issue, priority, assigned_to, will_reopen
DrawFields(s) ==
    /\ pc = "body"
    /\ \E d \in s.days, h \in s.hours, m \in s.minutes :
          date_opened' = timedelta(d, 0, 0) + timedelta(0, h, m)
    /\ \E p \in s.products :
          /\ product' = products[p]
          /\ issue' \in IssueChoices(products[p], s)
    /\ \E q \in s.priorities : priority' = priorities[q]
    /\ \E a \in s.agents : assigned_to' = support_agents[a]
    /\ \E u \in s.reopen_u : will_reopen' = WillReopen(u)
    /\ pc' = "resolve"
    /\ UNCHANGED <<num_tickets, target_reopen_rate, ticket_id, tickets, first_run, io, dash,
                   resolution_hours, date_closed, reopen_date, second_resolution_hours,
                   final_close_date, status, date_closed_formatted, resolution>>

\* lines 62-80: resolution_hours and the first date_closed
ResolutionTime(s) ==
    /\ pc = "resolve"
    /\ \E base_hours \in GammaOf(priority, s), u \in s.outlier_u, f \in s.outlier :
          LET hours == IF u < outlier_rate
                       THEN Outlier(Rescale(base_hours), f)
                       ELSE Rescale(base_hours)
          IN  /\ resolution_hours' = hours
              /\ date_closed' = date_opened + hours
    /\ pc' = "weekend"
    /\ UNCHANGED <<num_tickets, target_reopen_rate, ticket_id, tickets, first_run, io, dash,
                   date_opened, product, issue, priority, assigned_to, will_reopen,
                   reopen_date, second_resolution_hours, final_close_date,
                   status, date_closed_formatted, resolution>>

\* while date_closed.weekday() > 4
OnWeekend == weekday(date_closed) > 4

\* the sum computed and dropped: date_closed + timedelta(days=2) without the assignment
WeekendShift_discarded(s) ==
    /\ pc = "weekend"
    /\ OnWeekend
    /\ \E u \in s.weekend_u : u < weekend_skip_rate
    /\ UNCHANGED vars

\* lines 83-85, the draw below 0.7: date_closed += timedelta(days=2)
WeekendShift(s) ==
    /\ pc = "weekend"
    /\ OnWeekend
    /\ \E u \in s.weekend_u : u < weekend_skip_rate
    /\ date_closed' = date_closed + timedelta(2, 0, 0)
    /\ UNCHANGED <<pc, num_tickets, target_reopen_rate, ticket_id, tickets, first_run, io, dash,
                   date_opened, product, issue, priority, assigned_to, will_reopen,
                   resolution_hours, reopen_date, second_resolution_hours,
                   final_close_date, status, date_closed_formatted, resolution>>

\* lines 83-84, the draw not below 0.7: the loop tests again, nothing has changed
WeekendStay(s) ==
    /\ pc = "weekend"
    /\ OnWeekend
    /\ \E u \in s.weekend_u : ~(u < weekend_skip_rate)
    /\ UNCHANGED vars

\* line 83, the test fails: the loop ends
WeekendDone ==
    /\ pc = "weekend"
    /\ ~OnWeekend
    /\ pc' = "status"
    /\ UNCHANGED <<num_tickets, target_reopen_rate, ticket_id, tickets, first_run,
                   locals, io, dash>>

\* the three assignments that end every branch of lines 90-126
SetOutcome(st, closed_formatted, res) ==
    /\ status' = st
    /\ date_closed_formatted' = closed_formatted
    /\ resolution' = res

\* lines 115-117 and 124-126
OpenOutcome == SetOutcome("Open", EmptyStr, EmptyStr)

\* a ticket that is open again keeps the date of its first close
ReopenedOpenOutcome_keeps_date ==
    SetOutcome("Reopened Open", strftime(date_closed), EmptyStr)

\* lines 107-109 and 111-113
ReopenedOpenOutcome == SetOutcome("Reopened Open", EmptyStr, EmptyStr)

\* a closed ticket without its resolution text
ClosedOutcome_no_resolution(k) ==
    SetOutcome("Closed", strftime(date_closed), EmptyStr)

\* lines 120-122
ClosedOutcome(k) ==
    SetOutcome("Closed", strftime(date_closed), get_resolution(issue, FALSE, k))

\* the second resolution asked for without the reopened flag
ReopenedClosedOutcome_no_suffix(reopened_at, hours, k) ==
    /\ second_resolution_hours' = hours
    /\ final_close_date' = reopened_at + hours
    /\ SetOutcome("Reopened Closed", strftime(reopened_at + hours),
                  get_resolution(issue, FALSE, k))

\* lines 100-105
ReopenedClosedOutcome(reopened_at, hours, k) ==
    /\ second_resolution_hours' = hours
    /\ final_close_date' = reopened_at + hours
    /\ SetOutcome("Reopened Closed", strftime(reopened_at + hours),
                  get_resolution(issue, TRUE, k))

\* a reopening that falls at or after the cutoff is dropped: the first close stands
ReopenBranch_late_reopen_closed(s) ==
    IF date_closed < current_time
    THEN \E delay \in s.delay :
            LET reopened_at == date_closed + timedelta(0, delay, 0)
            IN  /\ reopen_date' = reopened_at
                /\ IF reopened_at < current_time
                   THEN \E u \in s.again_u :
                           IF u < resolved_again_rate
                           THEN \E hours \in s.gamma, k \in s.phrasing :
                                   ReopenedClosedOutcome(reopened_at, hours, k)
                           ELSE /\ ReopenedOpenOutcome
                                /\ UNCHANGED <<second_resolution_hours, final_close_date>>
                   ELSE /\ \E k \in s.phrasing : ClosedOutcome(k)
                        /\ UNCHANGED <<second_resolution_hours, final_close_date>>
    ELSE /\ OpenOutcome
         /\ UNCHANGED <<reopen_date, second_resolution_hours, final_close_date>>

\* lines 91-117: the branch of a ticket that will reopen
ReopenBranch(s) ==
    IF date_closed < current_time
    THEN \E delay \in s.delay :
            LET reopened_at == date_closed + timedelta(0, delay, 0)
            IN  /\ reopen_date' = reopened_at
                /\ IF reopened_at < current_time
                   THEN \E u \in s.again_u :
                           IF u < resolved_again_rate
                           THEN \E hours \in s.gamma, k \in s.phrasing :
                                   ReopenedClosedOutcome(reopened_at, hours, k)
                           ELSE /\ ReopenedOpenOutcome
                                /\ UNCHANGED <<second_resolution_hours, final_close_date>>
                   ELSE /\ ReopenedOpenOutcome
                        /\ UNCHANGED <<second_resolution_hours, final_close_date>>
    ELSE /\ OpenOutcome
         /\ UNCHANGED <<reopen_date, second_resolution_hours, final_close_date>>

\* the test of will_reopen is lost: every ticket takes the reopen branch
NoReopenBranch_reopens(s) == ReopenBranch(s)

\* the test against the cutoff left out: the ticket is closed whenever it is
NoReopenBranch_no_cutoff(s) ==
    /\ \E k \in s.phrasing : ClosedOutcome(k)
    /\ UNCHANGED <<reopen_date, second_resolution_hours, final_close_date>>

\* lines 119-126: the branch of a ticket that will not reopen
NoReopenBranch(s) ==
    /\ IF date_closed < current_time
       THEN \E k \in s.phrasing : ClosedOutcome(k)
       ELSE OpenOutcome
    /\ UNCHANGED <<reopen_date, second_resolution_hours, final_close_date>>

\* lines 88-126: status, date_closed_formatted, resolution
DetermineStatus(s) ==
    /\ pc = "status"
    /\ IF will_reopen THEN ReopenBranch(s) ELSE NoReopenBranch(s)
    /\ pc' = "append"
    /\ UNCHANGED <<num_tickets, target_reopen_rate, ticket_id, tickets, first_run, io, dash,
                   date_opened, product, issue, priority, assigned_to, will_reopen,
                   resolution_hours, date_closed>>

\* lines 129-141: the record of the ticket
Ticket ==
    [TicketID   |-> ticket_id,
     DateOpened |-> strftime(date_opened),
     DateClosed |-> date_closed_formatted,
     Product    |-> product,
     Issue      |-> issue,
     Priority   |-> priority,
     Status     |-> status,
     AssignedTo |-> assigned_to,
     Resolution |-> resolution]

\* line 143, and the step of the range to the next ticket_id; the locals of the
\* finished iteration are dead (each is assigned again before it is read)
AppendTicket ==
    /\ pc = "append"
    /\ tickets' = Append(tickets, Ticket)
    /\ ticket_id' = ticket_id + 1
    /\ ResetLocals
    /\ pc' = "for"
    /\ UNCHANGED <<num_tickets, target_reopen_rate, first_run, io, dash>>

----------------------------------------------------------------------------
(* save_to_csv *)

gen == <<num_tickets, target_reopen_rate, ticket_id, tickets, first_run, locals>>

fieldnames ==
    <<"TicketID", "DateOpened", "DateClosed", "Product", "Issue", "Priority",
      "Status", "AssignedTo", "Resolution">>

\* str() of an int, as the csv writer applies it to TicketID
str_int(n) == <<n>>

\* the values written with Status and AssignedTo out of the order of fieldnames
CsvRow_swapped(t) ==
    <<str_int(t.TicketID), t.DateOpened, t.DateClosed, t.Product, t.Issue,
      t.Priority, t.AssignedTo, t.Status, t.Resolution>>

\* DictWriter: the values of the dict in the order of fieldnames
CsvRow(t) ==
    <<str_int(t.TicketID), t.DateOpened, t.DateClosed, t.Product, t.Issue,
      t.Priority, t.Status, t.AssignedTo, t.Resolution>>

CsvRows(ts, k) == [i \in 1..k |-> CsvRow(ts[i])]

\* line 178: open(filename, 'w') creates or truncates the file
SaveOpen ==
    /\ pc = "returned"
    /\ file_exists' = TRUE
    /\ csvfile' = <<>>
    /\ handle' = "open"
    /\ pc' = "save_header"
    /\ UNCHANGED <<gen, dash, stdout, error, exit_code>>

\* line 178: open raises (permission denied); nothing was opened
SaveOpenFail ==
    /\ pc = "returned"
    /\ error' = "OSError"
    /\ pc' = "raise"
    /\ UNCHANGED <<gen, dash, file_exists, csvfile, handle, stdout, exit_code>>

\* the header row left out
WriteHeader_skipped ==
    /\ pc = "save_header"
    /\ csvfile' = csvfile
    /\ pc' = "save_rows"
    /\ UNCHANGED <<gen, dash, file_exists, handle, stdout, error, exit_code>>

\* line 180
WriteHeader ==
    /\ pc = "save_header"
    /\ csvfile' = Append(csvfile, fieldnames)
    /\ pc' = "save_rows"
    /\ UNCHANGED <<gen, dash, file_exists, handle, stdout, error, exit_code>>

\* line 180 raises (disk full); the with statement closes the file on the way out
WriteHeaderFail ==
    /\ pc = "save_header"
    /\ error' = "OSError"
    /\ handle' = "closed"
    /\ pc' = "raise"
    /\ UNCHANGED <<gen, dash, file_exists, csvfile, stdout, exit_code>>

\* line 181
WriteRows ==
    /\ pc = "save_rows"
    /\ csvfile' = csvfile \o CsvRows(tickets, Len(tickets))
    /\ pc' = "save_close"
    /\ UNCHANGED <<gen, dash, file_exists, handle, stdout, error, exit_code>>

\* the file opened without a with statement: the exception leaves it open
WriteRowsFail_leaks ==
    /\ pc = "save_rows"
    /\ \E k \in 0..(Len(tickets) - 1) : csvfile' = csvfile \o CsvRows(tickets, k)
    /\ error' = "OSError"
    /\ pc' = "raise"
    /\ UNCHANGED <<gen, dash, file_exists, handle, stdout, exit_code>>

\* line 181 raises after k rows; the with statement closes the file on the way out
WriteRowsFail ==
    /\ pc = "save_rows"
    /\ \E k \in 0..(Len(tickets) - 1) : csvfile' = csvfile \o CsvRows(tickets, k)
    /\ error' = "OSError"
    /\ handle' = "closed"
    /\ pc' = "raise"
    /\ UNCHANGED <<gen, dash, file_exists, stdout, exit_code>>

\* the end of the with block
SaveClose ==
    /\ pc = "save_close"
    /\ handle' = "closed"
    /\ pc' = "save_print"
    /\ UNCHANGED <<gen, dash, file_exists, csvfile, stdout, error, exit_code>>

\* line 183
SavePrint ==
    /\ pc = "save_print"
    /\ stdout' = Append(stdout, Line("Generated tickets and saved to", Len(tickets)))
    /\ pc' = "kpi"
    /\ UNCHANGED <<gen, dash, file_exists, csvfile, handle, error, exit_code>>

----------------------------------------------------------------------------
(* print_kpi_analysis and the end of the script *)

\* the list of closed statuses without 'Reopened Closed'
IsClosedStatus_plain_only(st) == st \in {"Closed"}

\* t['Status'] in ['Closed', 'Reopened Closed']
IsClosedStatus(st) == st \in {"Closed", "Reopened Closed"}

\* 'Reopened' in t['Status']: the statuses that hold the substring
HasReopened(st) == st \in {statuses[3], statuses[4]}

closed_tickets(ts) == {i \in 1..Len(ts) : IsClosedStatus(ts[i].Status)}

reopened_tickets(ts) == Cardinality({i \in 1..Len(ts) : HasReopened(ts[i].Status)})

\* n / total * 100 formatted to one decimal, in tenths of a percent
Percent(n, total) == (n * 2000 + total) \div (2 * total)

KpiHead(ts) ==
    <<Line("=== KPI Analysis ===", None),
      Line("Total Tickets", Len(ts)),
      Line("Closed Tickets", Cardinality(closed_tickets(ts))),
      Line("Reopened Tickets", reopened_tickets(ts))>>

\* lines 187-196; line 195 divides by total_tickets
PrintKpi ==
    /\ pc = "kpi"
    /\ IF Len(tickets) = 0
       THEN /\ stdout' = stdout \o KpiHead(tickets)
            /\ error' = "ZeroDivisionError"
            /\ pc' = "raise"
       ELSE /\ stdout' = stdout \o KpiHead(tickets) \o
                  <<Line("Reopen Rate", Percent(reopened_tickets(tickets), Len(tickets))),
                    Line("Resolution Rate",
                         Percent(Cardinality(closed_tickets(tickets)), Len(tickets)))>>
            /\ error' = error
            /\ pc' = "success"
    /\ UNCHANGED <<gen, dash, file_exists, csvfile, handle, exit_code>>

\* lines 209-211, and the normal end of the script
MainSuccess ==
    /\ pc = "success"
    /\ stdout' = Append(stdout, Line("Dataset generated successfully!", None))
    /\ exit_code' = 0
    /\ pc' = "exit"
    /\ UNCHANGED <<gen, dash, file_exists, csvfile, handle, error>>

\* the exception caught at the top level and the script left to end normally
MainRaise_exit_zero ==
    /\ pc = "raise"
    /\ exit_code' = 0
    /\ pc' = "exit"
    /\ UNCHANGED <<gen, dash, file_exists, csvfile, handle, stdout, error>>

\* an exception nobody catches ends the script with status 1
MainRaise ==
    /\ pc = "raise"
    /\ exit_code' = 1
    /\ pc' = "exit"
    /\ UNCHANGED <<gen, dash, file_exists, csvfile, handle, stdout, error>>

\* generate_support_tickets
GenNext(s) ==
    \/ ForLoop
    \/ DrawFields(s)
    \/ ResolutionTime(s)
    \/ WeekendShift(s)
    \/ WeekendStay(s)
    \/ WeekendDone
    \/ DetermineStatus(s)
    \/ AppendTicket

\* save_to_csv, print_kpi_analysis and the end of the script
MainNext ==
    \/ SaveOpen
    \/ SaveOpenFail
    \/ WriteHeader
    \/ WriteHeaderFail
    \/ WriteRows
    \/ WriteRowsFail
    \/ SaveClose
    \/ SavePrint
    \/ PrintKpi
    \/ MainSuccess
    \/ MainRaise

Next == GenNext(Narrow) \/ MainNext

\* the script, with generate_support_tickets(count) for every count up to MaxTickets
Init == InitWith((0 - 1)..MaxTickets, {default_reopen_rate})

Spec == Init /\ [][Next]_vars

\* generate_support_tickets(1): one pass through the loop body, every draw wide
InitTicket == InitWith({1}, {default_reopen_rate})

NextTicket == GenNext(Wide)

SpecTicket == InitTicket /\ [][NextTicket]_vars

\* generate_support_tickets(count) with the configuration line of
\* target_reopen_rate set to 0.0 or left at 0.132
ReopenRates == {0, default_reopen_rate}

InitConfig == InitWith(1..MaxTickets, ReopenRates)

NextConfig == GenNext(Narrow)

SpecConfig == InitConfig /\ [][NextConfig]_vars

\* generate_support_tickets(count) as the interpreter runs it: a statement that
\* can execute does execute, and while a close is on a weekend the draw below
\* 0.7 (probability 0.7 at every pass of the loop) is eventually made
InitFair == InitWith((0 - 1)..MaxTickets, {default_reopen_rate})

NextFair == GenNext(Narrow)

Statement ==
    \/ ForLoop
    \/ DrawFields(Narrow)
    \/ ResolutionTime(Narrow)
    \/ WeekendDone
    \/ DetermineStatus(Narrow)
    \/ AppendTicket

SpecFair ==
    /\ InitFair
    /\ [][NextFair]_vars
    /\ WF_vars(Statement)
    /\ WF_vars(WeekendShift(Narrow))

----------------------------------------------------------------------------
(* Reading the file back: pd.read_csv *)

\* the missing value read_csv gives for an empty cell
NaN == <<"NaN">>

\* int() of the text of a cell
int_str(c) == c[1]

\* the columns whose text is built by formatting; the others hold a word of a
\* vocabulary, which is never empty
formatted_columns == {"DateOpened", "DateClosed", "Resolution"}

\* the position of a column in the header row
column(header, f) == CHOOSE j \in 1..Len(header) : header[j] = f

\* the value of one cell: the TicketID column is all digits and is read as
\* integers, an empty cell is missing, every other cell is its text
cell_value(f, c) ==
    IF f = "TicketID" THEN int_str(c)
    ELSE IF f \in formatted_columns /\ c = EmptyStr THEN NaN
    ELSE c

\* the first row names the columns; every later row is one record, each value
\* taken from the cell under its column's name
read_csv(file) ==
    [i \in 1..(Len(file) - 1) |->
        [f \in {file[1][j] : j \in 1..Len(file[1])} |->
            cell_value(f, file[i + 1][column(file[1], f)])]]

----------------------------------------------------------------------------
(* The ticket dashboard of project_dash.py: InteractiveTicketDashboard *)

\* the missing datetime (NaT) and the missing number (NaN) of a numeric column
NaT == None

\* str(x) of a status, character by character
chars ==
    ("Open" :> <<"O", "p", "e", "n">>)
 @@ ("Closed" :> <<"C", "l", "o", "s", "e", "d">>)
 @@ ("Reopened Open" :>
        <<"R", "e", "o", "p", "e", "n", "e", "d", " ", "O", "p", "e", "n">>)
 @@ ("Reopened Closed" :>
        <<"R", "e", "o", "p", "e", "n", "e", "d", " ", "C", "l", "o", "s", "e", "d">>)

\* sub in text
Contains(sub, text) ==
    \E i \in 0..(Len(text) - Len(sub)) : SubSeq(text, i + 1, i + Len(sub)) = sub

\* the status compared whole with 'Closed' where the code looks for a substring
CleanStatus_exact(x) == IF x = "Closed" THEN "Closed" ELSE "Open"

\* lines 39-42: 'Closed' if 'Closed' in str(x) else 'Open' if 'Open' in str(x) else str(x)
CleanStatus(x) ==
    IF Contains(chars["Closed"], chars[x]) THEN "Closed"
    ELSE IF Contains(chars["Open"], chars[x]) THEN "Open"
    ELSE x

\* line 24: pd.to_datetime(..., errors='coerce') of one value of the column
coerce_datetime(c) == IF c = NaN THEN NaT ELSE to_datetime(c)

\* lines 23-42 for one row; ResolutionHours is assigned under closed_mask only
prepare_row(r) ==
    LET opened == to_datetime(r.DateOpened)
        closed == coerce_datetime(r.DateClosed)
    IN  [TicketID        |-> r.TicketID,
         DateOpened      |-> opened,
         DateClosed      |-> closed,
         Product         |-> r.Product,
         Issue           |-> r.Issue,
         Priority        |-> r.Priority,
         Status          |-> r.Status,
         AssignedTo      |-> r.AssignedTo,
         Resolution      |-> r.Resolution,
         ResolutionHours |-> IF closed # NaT THEN closed - opened ELSE NaT,
         OpenedMonth     |-> strftime(opened)[1],
         OpenedDayOfWeek |-> weekday(opened),
         OpenedHour      |-> strftime(opened)[4],
         OpenedDate      |-> opened \div Day,
         CleanStatus     |-> CleanStatus(r.Status)]

\* prepare_data
prepare_data(frame) == [i \in 1..Len(frame) |-> prepare_row(frame[i])]

\* lines 213-229: a copy of the frame, narrowed by each filter that is set
filter_data(frame, sel) ==
    LET keep(r) ==
            /\ sel.product # "all" => r.Product = sel.product
            /\ sel.priority # "all" => r.Priority = sel.priority
            /\ sel.status # "all" => r.CleanStatus = sel.status
            /\ (sel.start_date # None /\ sel.end_date # None) =>
                  (r.DateOpened >= sel.start_date /\ r.DateOpened <= sel.end_date)
    IN  SelectSeq(frame, keep)

\* the values the filter controls can send: 'all' or an option of the dropdown,
\* and for the date picker nothing or the midnight of a day
Selections ==
    {[product |-> p, priority |-> q, status |-> st, start_date |-> d[1], end_date |-> d[2]] :
        p \in {"all", "Pulse"}, q \in {"all", "Low"}, st \in {"all", "Open"},
        d \in {<<None, None>>, <<5 * Day, None>>, <<5 * Day, 365 * Day>>}}

\* lines 12-18 and 441: the dashboard started on the file the script wrote
DashInit ==
    /\ pc = "exit"
    /\ file_exists
    /\ Len(csvfile) >= 1
    /\ df' = prepare_data(read_csv(csvfile))
    /\ stdout' = Append(stdout, Line("Dashboard initialized with", Len(csvfile) - 1))
    /\ pc' = "dash"
    /\ UNCHANGED <<gen, file_exists, csvfile, handle, error, exit_code, filtered_df, selected>>

\* the callback filtering the frame in place
UpdateDashboard_in_place ==
    /\ pc = "dash"
    /\ \E sel \in Selections :
          /\ df' = filter_data(df, sel)
          /\ filtered_df' = filter_data(df, sel)
          /\ selected' = sel
    /\ UNCHANGED <<pc, gen, io>>

\* lines 252-254: the callback of the filter controls
UpdateDashboard ==
    /\ pc = "dash"
    /\ \E sel \in Selections :
          /\ filtered_df' = filter_data(df, sel)
          /\ selected' = sel
    /\ UNCHANGED <<pc, gen, io, df>>

----------------------------------------------------------------------------
(* The ticket dashboard of project_dash4.py: a module-level frame *)

\* lines 9-25 for one row: parse_dates, the derived columns and the fillna calls
load_row(r) ==
    LET opened == to_datetime(r.DateOpened)
        closed == coerce_datetime(r.DateClosed)
        hours  == IF closed # NaT THEN closed - opened ELSE NaT
    IN  [TicketID              |-> r.TicketID,
         DateOpened            |-> opened,
         DateClosed            |-> closed,
         Product               |-> r.Product,
         Issue                 |-> r.Issue,
         Priority              |-> r.Priority,
         Status                |-> r.Status,
         AssignedTo            |-> r.AssignedTo,
         Resolution            |-> IF r.Resolution = NaN THEN <<"Unresolved">> ELSE r.Resolution,
         ResolutionTimeHours   |-> hours,
         DayOfWeek             |-> weekday(opened),
         HourOfDay             |-> strftime(opened)[4],
         MonthYear             |-> <<strftime(opened)[3], strftime(opened)[1]>>,
         FirstContactTimeHours |-> IF hours # NaT THEN hours \div 10 ELSE NaT,
         WasReopened           |-> r.TicketID % 20 = 0]

load_frame(frame) == [i \in 1..Len(frame) |-> load_row(frame[i])]

\* lines 518-544: a copy of the frame, narrowed by each filter that has a value;
\* an empty list and None are false
update_filter(frame, sel) ==
    LET keep(r) ==
            /\ (sel.start_date # None /\ sel.end_date # None) =>
                  /\ r.DateOpened \div Day >= sel.start_date \div Day
                  /\ r.DateOpened \div Day <= sel.end_date \div Day
            /\ sel.products # {} => r.Product \in sel.products
            /\ sel.priorities # {} => r.Priority \in sel.priorities
            /\ sel.statuses # {} => r.Status \in sel.statuses
            /\ sel.assigned_to # {} => r.AssignedTo \in sel.assigned_to
            /\ sel.issues # {} => r.Issue \in sel.issues
            /\ sel.resolution_time_range # <<>> =>
                  \/ r.ResolutionTimeHours = NaT
                  \/ /\ r.ResolutionTimeHours >= sel.resolution_time_range[1]
                     /\ r.ResolutionTimeHours <= sel.resolution_time_range[2]
    IN  SelectSeq(frame, keep)

\* values of the multi-select dropdowns, the date picker and the range slider
Selections4 ==
    {[start_date |-> d[1], end_date |-> d[2], products |-> ps, priorities |-> {},
      statuses |-> sts, assigned_to |-> {}, issues |-> {},
      resolution_time_range |-> rg] :
        d \in {<<None, None>>, <<5 * Day, 365 * Day>>},
        ps \in {{}, {"Pulse"}},
        sts \in {{}, {"Closed", "Reopened Closed"}},
        rg \in {<<>>, <<0, 1 * Hour>>}}

\* lines 9-25: the module is imported with the file the script wrote in place
Dash4Init ==
    /\ pc = "exit"
    /\ file_exists
    /\ Len(csvfile) >= 1
    /\ df' = load_frame(read_csv(csvfile))
    /\ pc' = "dash4"
    /\ UNCHANGED <<gen, io, filtered_df, selected>>

\* lines 518-544 of update_dashboard: dff
UpdateDashboard4 ==
    /\ pc = "dash4"
    /\ \E sel \in Selections4 :
          /\ filtered_df' = update_filter(df, sel)
          /\ selected' = sel
    /\ UNCHANGED <<pc, gen, io, df>>

\* the script, then one of the dashboards started on its file and its filters used
NextDash == Next \/ DashInit \/ UpdateDashboard \/ Dash4Init \/ UpdateDashboard4

InitDash == InitWith(1..2, {default_reopen_rate})

SpecDash == InitDash /\ [][NextDash]_vars

\* generate_support_tickets called once more with the same arguments: nothing
\* the function reads is fixed by its caller (no seed is taken or set), so the
\* second run draws afresh from the generators of random and numpy.random
RunAgain ==
    /\ pc = "returned"
    /\ first_run = <<>>
    /\ first_run' = <<tickets>>
    /\ tickets' = <<>>
    /\ ticket_id' = first_ticket_id
    /\ pc' = "for"
    /\ UNCHANGED <<num_tickets, target_reopen_rate, locals, io, dash>>

\* two runs of generate_support_tickets(1), one after the other
NextRerun == GenNext(Narrow) \/ RunAgain

SpecRerun == InitTicket /\ [][NextRerun]_vars

----------------------------------------------------------------------------
(* Properties *)

GenPcs == {"for", "body", "resolve", "weekend", "status", "append"}

\* generate_support_tickets has returned its list
Returned == pc \notin GenPcs

Records == {tickets[i] : i \in 1..Len(tickets)}

OpenStatuses == {"Open", "Reopened Open"}

ClosedStatuses == {"Closed", "Reopened Closed"}

ReopenedStatuses == {"Reopened Open", "Reopened Closed"}

\* C1: for every count >= 1 the generator returns exactly count records, and the
\* i-th record (from 0) has TicketID 1001 + i: unique, contiguous, increasing.
C1_CountAndTicketIds ==
    /\ \A i \in 1..Len(tickets) : tickets[i].TicketID = 1001 + (i - 1)
    /\ (Returned /\ num_tickets >= 1) => Len(tickets) = num_tickets

C1_Witness ==
    /\ Returned
    /\ num_tickets = 2
    /\ Len(tickets) = 2
    /\ tickets[1].TicketID = 1001
    /\ tickets[2].TicketID = 1002

\* C2: in every record DateClosed is the empty string exactly when Status is
\* 'Open' or 'Reopened Open', and non-empty exactly when it is 'Closed' or
\* 'Reopened Closed'.
C2_DateClosedIffClosedStatus ==
    \A r \in Records :
        /\ r.Status \in OpenStatuses \cup ClosedStatuses
        /\ (r.DateClosed = EmptyStr) <=> (r.Status \in OpenStatuses)
        /\ (r.DateClosed # EmptyStr) <=> (r.Status \in ClosedStatuses)

C2_Witness ==
    \E r \in Records : r.Status = "Reopened Open" /\ r.DateClosed = EmptyStr

\* C3: in every record Resolution is empty exactly when DateClosed is empty, and
\* non-empty exactly when the Status is 'Closed' or 'Reopened Closed'.
C3_ResolutionIffClosed ==
    \A r \in Records :
        /\ (r.Resolution = EmptyStr) <=> (r.DateClosed = EmptyStr)
        /\ (r.Resolution # EmptyStr) <=> (r.Status \in ClosedStatuses)

C3_Witness ==
    \E r \in Records :
        r.Status = "Closed" /\ r.Resolution # EmptyStr /\ r.DateClosed # EmptyStr

\* C4: in every record with a non-empty DateClosed, the instant the emitted
\* DateClosed names is strictly later than the instant the emitted DateOpened
\* names, for 'Closed' and for 'Reopened Closed'.
C4_ClosedAfterOpened ==
    \A r \in Records :
        r.DateClosed # EmptyStr => to_datetime(r.DateClosed) > to_datetime(r.DateOpened)

\* a ticket closed after the floor of 0.1 hour: six minutes after it was opened
C4_Witness ==
    \E r \in Records :
        /\ r.Status = "Closed"
        /\ to_datetime(r.DateClosed) = to_datetime(r.DateOpened) + 6 * Minute

\* C5: every non-empty DateClosed is earlier than the cutoff current_time, and a
\* ticket is 'Reopened Closed' only if its final close time is before the cutoff.
C5_ClosedBeforeCutoff ==
    /\ \A r \in Records :
          r.DateClosed # EmptyStr => to_datetime(r.DateClosed) < current_time
    /\ status = "Reopened Closed" => final_close_date < current_time

\* C6: a ticket has a Reopened status only if its will_reopen draw was true; a
\* ticket whose draw was false is 'Open' or 'Closed'.  Stated of every step that
\* appends a record: the record against the will_reopen of its iteration.
C6_ReopenedOnlyIfEligible ==
    [][(pc = "append" /\ pc' = "for") =>
          LET r == tickets'[Len(tickets')]
          IN  /\ r.Status \in ReopenedStatuses => will_reopen
              /\ ~will_reopen => r.Status \in {"Open", "Closed"}]_vars

\* an eligible ticket about to be appended with a Reopened status
C6_Witness == pc = "append" /\ will_reopen /\ status = "Reopened Open"

\* C7: in every record the Issue is one of the five issues of the record's Product.
C7_IssueOfProduct ==
    \A r \in Records :
        /\ r.Product \in {products[i] : i \in 1..Len(products)}
        /\ \E i \in 1..5 : issue_types[r.Product][i] = r.Issue

C7_Witness ==
    \E r \in Records : r.Product = "Dynamo" /\ r.Issue = "Data Loss"

\* C8: the generator called with count <= 0 fails with InvalidArgument: it does
\* not return a list, and nothing is written to the output file.
C8_RejectsNonPositiveCount ==
    num_tickets <= 0 =>
        /\ pc = "for" \/ error = "InvalidArgument"
        /\ ~file_exists

\* C9: every sampled duration that is added to a timestamp to obtain a close time
\* is at least 0.1 hour: the first resolution and the second, after a reopen.
C9_DurationsFloored ==
    /\ resolution_hours # None => resolution_hours >= 360
    /\ second_resolution_hours # None => second_resolution_hours >= 360

\* C10: with target_reopen_rate = 0.0 no record has a Reopened status, for every
\* count and every outcome of the draws.
C10_NoReopenAtRateZero ==
    target_reopen_rate = 0 =>
        /\ \A r \in Records : r.Status \notin ReopenedStatuses
        /\ ~will_reopen
        /\ status \notin ReopenedStatuses

C10_Witness ==
    /\ target_reopen_rate = 0
    /\ num_tickets = 2
    /\ Len(tickets) = 2
    /\ \E r \in Records : r.Status = "Closed"

\* C11: two runs of the generator with the same count, the same configuration and
\* the same seed return identical lists of records.  The function takes no seed
\* and sets none, so the two runs share everything a caller can fix.
C11_SameSeedSameRecords ==
    (pc = "returned" /\ first_run # <<>>) => tickets = first_run[1]

\* save_to_csv has returned without raising
Saved == handle = "closed" /\ error # "OSError"

SavePcs == {"save_header", "save_rows", "save_close"}

\* C13: the file object of save_to_csv is released on every way out of the
\* function, by return or by an exception raised while the header or the rows
\* are written, and it is open only while the write is under way.
C13_HandleReleased ==
    /\ handle = "open" => (pc \in SavePcs /\ error = "")
    /\ (Returned /\ pc \notin SavePcs /\ file_exists) => handle = "closed"
    /\ handle = "none" <=> ~file_exists

\* the write failed after the header and one row of two; the file is closed
C13_Witness ==
    /\ pc = "raise"
    /\ error = "OSError"
    /\ handle = "closed"
    /\ Len(tickets) = 2
    /\ Len(csvfile) = 2

Printed(text) == \E i \in 1..Len(stdout) : stdout[i].text = text

\* C14: the script run for a positive count ends with exit code 0 when the
\* generation and the write succeed and with a non-zero code when the write
\* fails; a failure in save_to_csv propagates, and then neither the KPI summary
\* nor 'Dataset generated successfully!' is printed.
C14_ExitCode ==
    /\ (pc = "exit" /\ num_tickets >= 1 /\ error = "") => exit_code = 0
    /\ (pc = "exit" /\ error = "OSError") => (exit_code # 0 /\ exit_code # None)
    /\ exit_code = 0 => (Saved /\ Len(csvfile) = Len(tickets) + 1)
    /\ error = "OSError" =>
          /\ pc \in {"raise", "exit"}
          /\ ~Printed("=== KPI Analysis ===")
          /\ ~Printed("Dataset generated successfully!")
          /\ ~Printed("Generated tickets and saved to")

\* the script ended after the write of two tickets failed part way
C14_Witness ==
    /\ pc = "exit"
    /\ exit_code = 1
    /\ error = "OSError"
    /\ Len(tickets) = 2
    /\ Len(csvfile) = 2

\* C15: after save_to_csv succeeds on N records the file holds one header row
\* with the columns TicketID, DateOpened, DateClosed, Product, Issue, Priority,
\* Status, AssignedTo, Resolution in that order, then exactly N data rows, one
\* per ticket, in the order of the list.
C15_FileLayout ==
    Saved =>
        /\ file_exists
        /\ Len(csvfile) = Len(tickets) + 1
        /\ csvfile[1] = <<"TicketID", "DateOpened", "DateClosed", "Product", "Issue",
                           "Priority", "Status", "AssignedTo", "Resolution">>
        /\ \A i \in 1..Len(tickets) :
              LET row == csvfile[i + 1]
                  t == tickets[i]
              IN  /\ Len(row) = 9
                  /\ row[1] = <<t.TicketID>>
                  /\ row[2] = t.DateOpened
                  /\ row[3] = t.DateClosed
                  /\ row[4] = t.Product
                  /\ row[5] = t.Issue
                  /\ row[6] = t.Priority
                  /\ row[7] = t.Status
                  /\ row[8] = t.AssignedTo
                  /\ row[9] = t.Resolution

\* two tickets saved: the header, then the rows of 1001 and 1002
C15_Witness ==
    /\ pc = "save_print"
    /\ Len(tickets) = 2
    /\ Len(csvfile) = 3
    /\ csvfile[2][1] = <<1001>>
    /\ csvfile[3][1] = <<1002>>

\* C18: of a ticket that will reopen: a first close not before the cutoff gives
\* 'Open'; a first close before the cutoff always gives 'Reopened Open' or
\* 'Reopened Closed', never plain 'Closed'; and a reopen time not before the
\* cutoff gives 'Reopened Open'.  Stated of every step that appends the record
\* of such a ticket.
C18_ReopenOutcomeTree ==
    [][(pc = "append" /\ pc' = "for" /\ will_reopen) =>
          LET r == tickets'[Len(tickets')]
          IN  /\ ~(date_closed < current_time) => r.Status = "Open"
              /\ date_closed < current_time =>
                    /\ r.Status \in ReopenedStatuses
                    /\ r.Status # "Closed"
                    /\ reopen_date # None
              /\ (date_closed < current_time /\ ~(reopen_date < current_time)) =>
                    r.Status = "Reopened Open"]_vars

\* first closed before the cutoff, reopened at or after it
C18_Witness ==
    /\ pc = "append"
    /\ will_reopen
    /\ date_closed < current_time
    /\ reopen_date >= current_time
    /\ status = "Reopened Open"

\* C19: the weekend adjustment does not guarantee a close off the weekend: the
\* draw that is not below 0.7 leaves a first close on Saturday or Sunday in
\* place, so the loop can finish with the close still on the weekend and the
\* ticket go on to its status with that date.
C19_WeekendCloseCanRemain ==
    (pc = "weekend" /\ OnWeekend) =>
        ENABLED (NextTicket /\ pc' = "status" /\ date_closed' = date_closed)

\* C20: for every count the generator eventually returns; the weekend loop ends
\* once the draw below 0.7 is made, and a two-day shift always ends it (Saturday
\* to Monday, Sunday to Tuesday), so a ticket is shifted at most once.
C20_GenerationTerminates ==
    /\ <>(pc = "returned")
    /\ [][(pc = "weekend" /\ date_closed' # date_closed) =>
             (date_closed' = date_closed + 2 * Day /\ weekday(date_closed') <= 4)]_vars

\* returned with two tickets, one of them closed on the Monday after a shift
C20_Witness ==
    /\ pc = "returned"
    /\ num_tickets = 2
    /\ Len(tickets) = 2
    /\ \E r \in Records :
          /\ r.Status = "Closed"
          /\ weekday(to_datetime(r.DateOpened)) = 4
          /\ weekday(to_datetime(r.DateClosed)) = 0

\* C21: of a ticket that will reopen and was first closed before the cutoff, the
\* reopen time is the first close time, as the weekend loop left it, plus a whole
\* number of hours from 1 to 168; hence the DateClosed emitted for a 'Reopened
\* Closed' record is at least one hour later than the ticket's first close time.
C21_ReopenDelay ==
    [][(pc = "append" /\ pc' = "for" /\ will_reopen /\ date_closed < current_time) =>
          LET r == tickets'[Len(tickets')]
          IN  /\ \E h \in 1..168 : reopen_date = date_closed + h * Hour
              /\ r.Status = "Reopened Closed" =>
                    to_datetime(r.DateClosed) >= date_closed + 1 * Hour]_vars

\* C22: in every record with a non-empty Resolution, the text without the
\* post-reopen suffix is one of the three phrasings get_resolution holds for the
\* record's Issue.
C22_ResolutionOfIssue ==
    \A r \in Records :
        r.Resolution # EmptyStr =>
            /\ r.Issue \in DOMAIN resolutions
            /\ Len(resolutions[r.Issue]) = 3
            /\ \E k \in 1..3 :
                  \/ r.Resolution = <<resolutions[r.Issue][k]>>
                  \/ r.Resolution = <<resolutions[r.Issue][k], " - Reopened Issue Addressed">>

\* a Dynamo ticket resolved after its reopening with a phrasing of 'Data Loss'
C22_Witness ==
    \E r \in Records :
        /\ r.Issue = "Data Loss"
        /\ r.Resolution = <<"Recovered Data", " - Reopened Issue Addressed">>

\* the text ends with the post-reopen suffix
EndsWithSuffix(text) ==
    /\ text # EmptyStr
    /\ text[Len(text)] = " - Reopened Issue Addressed"

\* C23: a record's Resolution ends with ' - Reopened Issue Addressed' if and only
\* if its Status is 'Reopened Closed'; a record with Status 'Closed' never
\* carries the suffix.
C23_SuffixIffReopenedClosed ==
    \A r \in Records :
        /\ EndsWithSuffix(r.Resolution) <=> r.Status = "Reopened Closed"
        /\ r.Status = "Closed" =>
              \A i \in 1..Len(r.Resolution) : r.Resolution[i] # " - Reopened Issue Addressed"

C23_Witness ==
    \E r \in Records :
        /\ r.Status = "Reopened Closed"
        /\ Len(r.Resolution) = 2
        /\ r.Resolution[2] = " - Reopened Issue Addressed"

\* C30: the fallback text 'Issue Resolved' of get_resolution is never emitted:
\* every issue of every product has an entry in get_resolution's table, and
\* every non-empty Resolution of a record begins with a phrasing of that table.
C30_FallbackNeverEmitted ==
    /\ \A p \in DOMAIN issue_types :
          \A i \in 1..Len(issue_types[p]) : issue_types[p][i] \in DOMAIN resolutions
    /\ resolution # EmptyStr => resolution[1] # "Issue Resolved"
    /\ \A r \in Records :
          r.Resolution # EmptyStr =>
              /\ r.Resolution[1] # "Issue Resolved"
              /\ \E iss \in DOMAIN resolutions, k \in 1..3 :
                    r.Resolution[1] = resolutions[iss][k]

\* a closed ticket of the last issue of the last product, with a text of the table
C30_Witness ==
    \E r \in Records :
        /\ r.Product = "Pulse"
        /\ r.Issue = "Sync Issue"
        /\ r.Status = "Closed"
        /\ r.Resolution = <<"Fixed Synchronization">>

\* C24: every DateOpened lies in the window from 2024-01-01 00:00 to that
\* instant plus 365 days, the hour and minute offsets included: none is earlier
\* than the start and none later than the start plus 365 days.
C24_OpenedInWindow ==
    \A r \in Records :
        /\ to_datetime(r.DateOpened) >= 0
        /\ to_datetime(r.DateOpened) <= 365 * Day

\* C25: every ticket opened at or after the cutoff 2024-12-31 00:00 is emitted
\* with Status 'Open', empty DateClosed and empty Resolution, whether or not it
\* was drawn to reopen; a record that is closed or reopened was opened before
\* the cutoff.
C25_OpenedAfterCutoffIsOpen ==
    /\ (pc = "append" /\ date_opened >= current_time) =>
          (status = "Open" /\ date_closed_formatted = EmptyStr /\ resolution = EmptyStr)
    /\ \A r \in Records :
          /\ to_datetime(r.DateOpened) >= current_time =>
                (r.Status = "Open" /\ r.DateClosed = EmptyStr /\ r.Resolution = EmptyStr)
          /\ r.Status # "Open" => to_datetime(r.DateOpened) < current_time

\* a ticket drawn to reopen, opened on the day of the cutoff, about to be appended
C25_Witness ==
    /\ pc = "append"
    /\ will_reopen
    /\ date_opened = 365 * Day + 23 * Hour + 59 * Minute
    /\ status = "Open"

\* the number printed on the line of stdout that begins with the text, if any
PrintedValues(text) == {stdout[i].value : i \in {j \in 1..Len(stdout) : stdout[j].text = text}}

WithDateClosed == {i \in 1..Len(tickets) : tickets[i].DateClosed # EmptyStr}

WithReopenedStatus == {i \in 1..Len(tickets) : tickets[i].Status \in ReopenedStatuses}

\* C26: for every list the generator returns, the counts print_kpi_analysis uses
\* agree with the records: its closed tickets are as many as the records with a
\* non-empty DateClosed, its reopened tickets as many as the records with Status
\* 'Reopened Open' or 'Reopened Closed', and neither exceeds the total.
C26_KpiCountsAgree ==
    /\ Returned =>
          /\ Cardinality(closed_tickets(tickets)) = Cardinality(WithDateClosed)
          /\ reopened_tickets(tickets) = Cardinality(WithReopenedStatus)
          /\ Cardinality(closed_tickets(tickets)) <= Len(tickets)
          /\ reopened_tickets(tickets) <= Len(tickets)
    /\ PrintedValues("Total Tickets") \subseteq {Len(tickets)}
    /\ PrintedValues("Closed Tickets") \subseteq {Cardinality(WithDateClosed)}
    /\ PrintedValues("Reopened Tickets") \subseteq {Cardinality(WithReopenedStatus)}

\* the summary printed for two tickets, one closed after a reopening, one open again
C26_Witness ==
    /\ PrintedValues("Closed Tickets") = {1}
    /\ PrintedValues("Reopened Tickets") = {2}
    /\ PrintedValues("Total Tickets") = {2}

\* C27: print_kpi_analysis completes without raising for every list the
\* generator can return, the empty list of count = 0 included: once its heading
\* is printed, both rates are printed and no exception leaves it.
C27_KpiCompletes ==
    Printed("=== KPI Analysis ===") =>
        /\ Printed("Reopen Rate")
        /\ Printed("Resolution Rate")
        /\ error = ""

\* C28: for every generated record loaded by prepare_data, CleanStatus is
\* 'Closed' for 'Closed' and 'Reopened Closed' and 'Open' for 'Open' and
\* 'Reopened Open'; CleanStatus is 'Open' if and only if the parsed DateClosed is
\* missing, so ResolutionHours is defined exactly for CleanStatus 'Closed'.
C28_CleanStatusMatchesSentinel ==
    pc = "dash" =>
        /\ Len(df) = Len(csvfile) - 1
        /\ \A i \in 1..Len(df) :
              /\ df[i].TicketID = tickets[i].TicketID
              /\ df[i].Status = tickets[i].Status
              /\ df[i].Status \in {"Closed", "Reopened Closed"} => df[i].CleanStatus = "Closed"
              /\ df[i].Status \in {"Open", "Reopened Open"} => df[i].CleanStatus = "Open"
              /\ df[i].CleanStatus = "Open" <=> df[i].DateClosed = NaT
              /\ df[i].DateClosed = NaT <=> tickets[i].DateClosed = EmptyStr
              /\ df[i].ResolutionHours # NaT <=> df[i].CleanStatus = "Closed"
              /\ df[i].ResolutionHours # NaT =>
                    df[i].ResolutionHours = df[i].DateClosed - df[i].DateOpened

\* a frame of two tickets, one closed after a reopening and one open again
C28_Witness ==
    /\ pc = "dash"
    /\ Len(df) = 2
    /\ \E i, j \in 1..2 :
          /\ df[i].Status = "Reopened Closed"
          /\ df[i].CleanStatus = "Closed"
          /\ df[j].Status = "Reopened Open"
          /\ df[j].CleanStatus = "Open"
          /\ df[j].DateClosed = NaT

\* the frame a dashboard holds, computed again from the file it loaded
Loaded ==
    IF pc = "dash" THEN prepare_data(read_csv(csvfile)) ELSE load_frame(read_csv(csvfile))

\* the rows of a frame
Rows(frame) == {frame[i] : i \in 1..Len(frame)}

\* no filter of the selection has a value
NothingSelected ==
    IF pc = "dash"
    THEN /\ selected.product = "all"
         /\ selected.priority = "all"
         /\ selected.status = "all"
         /\ (selected.start_date = None \/ selected.end_date = None)
    ELSE /\ selected.products = {}
         /\ selected.priorities = {}
         /\ selected.statuses = {}
         /\ selected.assigned_to = {}
         /\ selected.issues = {}
         /\ selected.resolution_time_range = <<>>
         /\ (selected.start_date = None \/ selected.end_date = None)

====
